---- MODULE Spec2Model ----
(***************************************************************************)
(* The document-compare tool of client/src/components/nav-secondary.tsx:   *)
(* the ToolsView component, its handlers (handleSetOldPdf, handleSetNewPdf,*)
(* handleClear, handleAnalyze, handleFindImpact) and the SSE accumulator   *)
(* streamSSE they share.                                                   *)
(*                                                                         *)
(* A JavaScript string is a sequence of symbols; a response body is a      *)
(* sequence of bytes.  Most symbols are one character; a few stand for a   *)
(* fixed run of characters of a JSON text or of a message ("Unexpected",   *)
(* "\"type\":\"error\"", ...), which the code never looks inside.          *)
(***************************************************************************)
EXTENDS Integers, Sequences, FiniteSets, TLC

(***************************************************************************)
(* Bounds of the model.                                                    *)
(***************************************************************************)
\* lines of a response body in the streaming specification
MaxLines == 2
\* largest reading of the clock
MaxClock == 100
\* granularity of the clock
ClockStep == 25
\* calls of the chat store, and calls of add_message among them
MaxOps == 12
MaxAdds == 2
\* responses started on the chat page
MaxStreams == 4
\* close timers of the BrandSettings dialog that are pending
MaxTimers == 2

(***************************************************************************)
(* Program constants.                                                      *)
(***************************************************************************)
UPDATE_INTERVAL == 50
LS_OLD_PDF == "compare_old_pdf"
LS_NEW_PDF == "compare_new_pdf"
LS_ANALYSIS == "compare_analysis"
LS_IMPACT == "compare_impact"

Phases == {"analyze", "impact"}

(***************************************************************************)
(* Strings.                                                                *)
(***************************************************************************)
LF == "\n"
CR == "\r"
SP == " "
QUOTE == "\""

\* the characters String.prototype.trim strips
WhiteSpace == {SP, CR, LF, "\t"}

StartsWith(s, prefix) ==
    /\ Len(s) >= Len(prefix)
    /\ SubSeq(s, 1, Len(prefix)) = prefix

IsPrefix(s, t) == StartsWith(t, s)

RECURSIVE TrimStart(_)
TrimStart(s) ==
    IF s # <<>> /\ Head(s) \in WhiteSpace THEN TrimStart(Tail(s)) ELSE s

RECURSIVE TrimEnd(_)
TrimEnd(s) ==
    IF s # <<>> /\ s[Len(s)] \in WhiteSpace
    THEN TrimEnd(SubSeq(s, 1, Len(s) - 1))
    ELSE s

Trim(s) == TrimEnd(TrimStart(s))

\* s.slice(n): the string from index n (0-based) on
Slice(s, n) == SubSeq(s, n + 1, Len(s))

\* s.split("\n"): the pieces between line feeds, at least one piece
RECURSIVE Split(_)
Split(s) ==
    IF \A i \in 1..Len(s) : s[i] # LF THEN <<s>>
    ELSE LET i == CHOOSE i \in 1..Len(s) :
                     s[i] = LF /\ \A j \in 1..(i - 1) : s[j] # LF
         IN <<SubSeq(s, 1, i - 1)>> \o Split(SubSeq(s, i + 1, Len(s)))

RECURSIVE Concat(_)
Concat(ss) == IF ss = <<>> THEN <<>> ELSE Head(ss) \o Concat(Tail(ss))

(***************************************************************************)
(* TextDecoder (UTF-8).  One two-byte character is modelled: the bytes     *)
(* C3 A9 decode to U+00E9.  With { stream: true } a lead byte at the end   *)
(* of a chunk is kept in the decoder until the next call.                  *)
(***************************************************************************)
LeadBytes == {"C3"}
ContBytes == {"A9"}
REPLACEMENT == "U+FFFD"
EACUTE == "U+00E9"

\* the decoder run over the bytes x (those kept from the last call, then the
\* chunk): a lead byte followed by a continuation byte is one character, a lead
\* byte at the end is kept, any other lead or continuation byte is replaced
NOTHING == ""
DecodeFrom(pend, bytes) ==
    LET x == pend \o bytes
        n == Len(x)
        out == [i \in 1..n |->
                  IF x[i] \in LeadBytes
                  THEN IF i = n \/ x[i + 1] \in ContBytes THEN NOTHING ELSE REPLACEMENT
                  ELSE IF x[i] \in ContBytes
                  THEN IF i > 1 /\ x[i - 1] \in LeadBytes THEN EACUTE ELSE REPLACEMENT
                  ELSE x[i]]
    IN [text |-> SelectSeq(out, LAMBDA c : c # NOTHING),
        pending |-> IF n > 0 /\ x[n] \in LeadBytes THEN <<x[n]>> ELSE <<>>]

\* decoder.decode(value, { stream: true })
Decode(pend, value) == DecodeFrom(pend, value)

\* the UTF-8 bytes of a string (what the server writes)
Encode(s) ==
    Concat([i \in 1..Len(s) |-> IF s[i] = EACUTE THEN <<"C3", "A9">> ELSE <<s[i]>>])

(***************************************************************************)
(* JSON texts of the events.  An event is written                          *)
(*     { "type":"T" }     or     { "type":"T" , "k": " chars " }           *)
(* where the member "type":"T" and the key "k": are one symbol each.       *)
(***************************************************************************)
TYPE_DELTA == "\"type\":\"response.output_text.delta\""
TYPE_ERROR == "\"type\":\"error\""
TYPE_OTHER == "\"type\":\"response.completed\""
KEY_DELTA == ",\"delta\":"
KEY_ERROR == ",\"error\":"

TypeName(tok) ==
    CASE tok = TYPE_DELTA -> "response.output_text.delta"
      [] tok = TYPE_ERROR -> "error"
      [] OTHER -> "response.completed"


\* the JavaScript engines whose JSON.parse words its SyntaxError differently
Engines == {"V8", "SpiderMonkey"}

\* " chars ": a JSON string literal without escapes
IsStringLiteral(f) ==
    /\ Len(f) >= 2
    /\ f[1] = QUOTE
    /\ f[Len(f)] = QUOTE
    /\ \A i \in 2..(Len(f) - 1) : f[i] \notin {QUOTE, CR, LF, "\t"}

IsObjectText(d) ==
    /\ Len(d) >= 3
    /\ d[1] = "{"
    /\ d[Len(d)] = "}"
    /\ d[2] \in {TYPE_DELTA, TYPE_ERROR, TYPE_OTHER}
    /\ \/ Len(d) = 3
       \/ /\ Len(d) >= 6
          /\ d[3] \in {KEY_DELTA, KEY_ERROR}
          /\ IsStringLiteral(SubSeq(d, 4, Len(d) - 1))

\* the message of the SyntaxError JSON.parse throws on text d
SyntaxErrorMessage(engine, d) ==
    IF engine = "SpiderMonkey"
    THEN <<"JSON.parse:", " unexpected character at line 1 column 1 of the JSON data">>
    ELSE IF Head(d) = "{"
         THEN <<"Expected", " ',' or '}' after property value in JSON">>
         ELSE <<"Unexpected", " token">>

\* JSON.parse(d): the value, or the error thrown
JSONParse(engine, d) ==
    IF d = <<"null">>
    THEN [ok |-> TRUE, kind |-> "null", type |-> "", delta |-> <<>>, error |-> <<>>,
          message |-> <<>>]
    ELSE IF IsObjectText(d)
    THEN LET lit == IF Len(d) = 3 THEN <<>> ELSE SubSeq(d, 5, Len(d) - 2)
             key == IF Len(d) = 3 THEN "" ELSE d[3]
         IN [ok |-> TRUE, kind |-> "object", type |-> TypeName(d[2]),
             delta |-> IF key = KEY_DELTA THEN lit ELSE <<>>,
             error |-> IF key = KEY_ERROR THEN lit ELSE <<>>,
             message |-> <<>>]
    ELSE [ok |-> FALSE, kind |-> "", type |-> "", delta |-> <<>>, error |-> <<>>,
          message |-> SyntaxErrorMessage(engine, d)]

(***************************************************************************)
(* Errors: name and message.                                               *)
(***************************************************************************)
NoError == [name |-> "", message |-> <<>>]
MkError(name, message) == [name |-> name, message |-> message]
UNKNOWN_SERVER_ERROR == <<"Unknown error", " from server">>
AbortError == MkError("AbortError", <<"The user aborted a request.">>)
NetworkError == MkError("TypeError", <<"Failed to fetch">>)
NoBodyError == MkError("Error", <<"No response body">>)
NullTypeError(engine) ==
    MkError("TypeError",
            IF engine = "V8" THEN <<"Cannot read properties of null (reading 'type')">>
            ELSE <<"event is null">>)

\* what the try block of one data line throws (NoError when it completes)
TryThrows(engine, data) ==
    LET event == JSONParse(engine, data) IN
    IF ~event.ok THEN MkError("SyntaxError", event.message)
    ELSE IF event.kind = "null" THEN NullTypeError(engine)
    ELSE IF event.type = "error"
    THEN MkError("Error", IF event.error # <<>> THEN event.error
                          ELSE UNKNOWN_SERVER_ERROR)
    ELSE NoError

\* the condition of the catch clause under which parseErr is thrown again
Rethrows(parseErr) ==
    \/ StartsWith(parseErr.message, <<"Unknown error">>)
    \/ ~StartsWith(parseErr.message, <<"Unexpected">>)

\* the text the try block appends (empty when it appends nothing)
DeltaOf(engine, data) ==
    LET event == JSONParse(engine, data) IN
    IF event.ok /\ event.kind = "object"
       /\ event.type = "response.output_text.delta"
    THEN event.delta
    ELSE <<>>

(***************************************************************************)
(* The body of the read loop of streamSSE.  The loop state is the triple   *)
(* of its local variables accumulated, lastUpdate and the error that left  *)
(* the loop, with the list of the onDelta calls made so far.               *)
(***************************************************************************)
DATA_PREFIX == <<"d", "a", "t", "a", ":", SP>>
DONE == <<"[DONE]">>

OnDeltaCall(text, at, flush) == [text |-> text, at |-> at, flush |-> flush]

\* accumulated += event.delta, and the throttled onDelta
AccumulateReversed(st, delta, t) ==
    LET acc == delta \o st.accumulated IN
    IF t - st.lastUpdate >= UPDATE_INTERVAL
    THEN [st EXCEPT !.accumulated = acc,
                    !.calls = Append(@, OnDeltaCall(acc, t, FALSE)),
                    !.lastUpdate = t]
    ELSE [st EXCEPT !.accumulated = acc]
AccumulateUnthrottled(st, delta, t) ==
    LET acc == st.accumulated \o delta IN
    [st EXCEPT !.accumulated = acc,
               !.calls = Append(@, OnDeltaCall(acc, t, FALSE)),
               !.lastUpdate = t]
AccumulateDelta(st, delta, t) ==
    LET acc == st.accumulated \o delta IN
    IF t - st.lastUpdate >= UPDATE_INTERVAL
    THEN [st EXCEPT !.accumulated = acc,
                    !.calls = Append(@, OnDeltaCall(delta, t, FALSE)),
                    !.lastUpdate = t]
    ELSE [st EXCEPT !.accumulated = acc]
Accumulate(st, delta, t) ==
    LET acc == st.accumulated \o delta IN
    IF t - st.lastUpdate >= UPDATE_INTERVAL
    THEN [st EXCEPT !.accumulated = acc,
                    !.calls = Append(@, OnDeltaCall(acc, t, FALSE)),
                    !.lastUpdate = t]
    ELSE [st EXCEPT !.accumulated = acc]

\* one iteration of "for (const line of lines)"
ProcessLine(engine, t, st, line) ==
    IF st.thrown # NoError THEN st
    ELSE IF Trim(line) = <<>> \/ ~StartsWith(line, DATA_PREFIX) THEN st
    ELSE LET data == Trim(Slice(line, 6)) IN
         IF data = <<>> \/ data = DONE THEN st
         ELSE LET parseErr == TryThrows(engine, data)
                  delta == DeltaOf(engine, data)
              IN IF parseErr # NoError
                 THEN IF Rethrows(parseErr)
                      THEN [st EXCEPT !.thrown = parseErr]
                      ELSE st
                 ELSE IF delta # <<>> THEN Accumulate(st, delta, t)
                 ELSE st

RECURSIVE ProcessLines(_, _, _, _)
ProcessLines(engine, t, st, lines) ==
    IF lines = <<>> THEN st
    ELSE ProcessLines(engine, t, ProcessLine(engine, t, st, Head(lines)), Tail(lines))

\* buffer = lines.pop() || ""
DropBuffer(lines) == <<>>
PopBuffer(lines) == lines[Len(lines)]

\* the lines left in the array after lines.pop()
CompleteLines(lines) == SubSeq(lines, 1, Len(lines) - 1)

\* the finally block: if (accumulated) onDelta(accumulated)
FlushWhenDue(st, t) ==
    IF st.accumulated # <<>> /\ t - st.lastUpdate >= UPDATE_INTERVAL
    THEN [st EXCEPT !.calls = Append(@, OnDeltaCall(st.accumulated, t, TRUE))]
    ELSE st
Flush(st, t) ==
    IF st.accumulated # <<>>
    THEN [st EXCEPT !.calls = Append(@, OnDeltaCall(st.accumulated, t, TRUE))]
    ELSE st

(***************************************************************************)
(* localStorage and the stored form of a PDF.                              *)
(***************************************************************************)
StorageKeys == {LS_OLD_PDF, LS_NEW_PDF, LS_ANALYSIS, LS_IMPACT}
Absent == [present |-> FALSE, value |-> <<>>]
SetItem(ls, key, value) == [ls EXCEPT ![key] = [present |-> TRUE, value |-> value]]
RemoveItem(ls, key) == [ls EXCEPT ![key] = Absent]
\* the key a phase caches its final text under
ResultKeyAnalysis(p) == LS_ANALYSIS
ResultKey(p) == IF p = "analyze" THEN LS_ANALYSIS ELSE LS_IMPACT
\* localStorage.getItem(key) || ""
GetItemOrEmpty(ls, key) == IF ls[key].present THEN ls[key].value ELSE <<>>

\* the file the user drops on each slot
PdfFiles(slot) ==
    IF slot = "old" THEN {[name |-> "old.pdf", size |-> "1024", data |-> "JVBERi0xLjQ="]}
    ELSE {[name |-> "new.pdf", size |-> "2048", data |-> "JVBERi0xLjc="]}

\* a PdfFile | null is a sequence of at most one file
Null == <<>>
Some(pdf) == <<pdf>>

\* JSON.stringify(pdf)
Stringify(pdf) ==
    <<"{", "\"name\":", pdf.name, ",\"size\":", pdf.size, ",\"data\":", pdf.data, "}">>

\* JSON.parse(raw) as PdfFile
ParsePdf(raw) == [name |-> raw[3], size |-> raw[5], data |-> raw[7]]

savePdfToStorage(ls, key, pdf, full) ==
    IF pdf # Null
    THEN IF full THEN ls ELSE SetItem(ls, key, Stringify(pdf[1]))
    ELSE RemoveItem(ls, key)

loadPdfFromStorage(ls, key) ==
    IF ls[key].present /\ Len(ls[key].value) > 0
    THEN Some(ParsePdf(ls[key].value))
    ELSE Null


(***************************************************************************)
(* State.                                                                  *)
(***************************************************************************)
VARIABLES
    oldPdf,        \* useState: PdfFile | null
    newPdf,        \* useState: PdfFile | null
    result,        \* analysisResult and impactResult, by phase
    loading,       \* isAnalyzing and isFindingImpact, by phase
    error,         \* analysisError and impactError, by phase
    localStorage,  \* the browser's store, by key
    stream,        \* the streamSSE call of each phase: its locals and its await
    finalText,     \* the local finalText of handleAnalyze / handleFindImpact
    now,           \* the reading of Date.now()
    engine,        \* the JavaScript engine the page runs on
    lastEvent,     \* the last user event handled (history)
    store,         \* the in-memory chat store of the backend
    chatView,      \* the chat page of the client
    bubble,        \* one Message component: its props and what it renders
    deploy,        \* one run of scripts/deploy.sh
    brand          \* the BrandSettings dialog

\* the compare tool, and the rest
toolVars == <<oldPdf, newPdf, result, loading, error, localStorage, stream,
              finalText, now, engine, lastEvent>>
otherVars == <<store, chatView, bubble, deploy, brand>>
vars == <<toolVars, otherVars>>

\* a chat message as the Message component gets it; null | undefined of an
\* optional field is the empty sequence, visualizations and the call lists of a
\* trace summary are given by their lengths
NoSummary == <<>>
Summary(duration_ms, total_tokens, tools_called, retrieval_calls) ==
    <<[duration_ms |-> duration_ms, total_tokens |-> total_tokens,
       tools_called |-> tools_called, retrieval_calls |-> retrieval_calls]>>
Messages ==
    [id : {"m1"}, role : {"user", "assistant"}, content : {<<"Request failed">>},
     isError : {"true", "false", "undefined"}, isStreaming : BOOLEAN,
     traceSummary : {NoSummary, Summary(0, 0, 0, 0), Summary(1500, 120, 1, 1)},
     traceId : {"undefined", "", "tr-1"}, visualizations : {0, 1}]

\* the rest before anything happened there.  The store is empty.  The chat page
\* has the chat shown (0 is a chat not yet created), whether a response is
\* streaming, the warning shown, the responses started and cancelled so far,
\* and the last event of the user or of the stream.  The Message is not rendered.
\* deploy.sh is at its first command: log holds the commands run and whether
\* each succeeded, exit is the exit status (-1 while the script runs), env tells
\* which variables .env.local sets.  The BrandSettings dialog is closed; its
\* error is "" for null, timers counts the close timers that are pending.
OthersIdle ==
    /\ store = [chats |-> {}, tick |-> 0, nextId |-> 1, adds |-> 0,
                request |-> [op |-> "none", chat_id |-> 0], reply |-> "none",
                evicted |-> {}]
    /\ chatView = [activeChat |-> 0, isStreaming |-> FALSE, warning |-> "",
                   streams |-> 0, cancelled |-> 0, event |-> "none"]
    /\ bubble = [mounted |-> FALSE,
                 message |-> [id |-> "m1", role |-> "user",
                              content |-> <<"Request failed">>,
                              isError |-> "undefined", isStreaming |-> FALSE,
                              traceSummary |-> NoSummary, traceId |-> "undefined",
                              visualizations |-> 0],
                 visualizationsVisible |-> TRUE, rendered |-> {}]
    /\ deploy = [pc |-> "check_deps", log |-> <<>>, exit |-> -1,
                 env |-> [path |-> FALSE, name |-> FALSE, host |-> FALSE]]
    /\ brand = [open |-> FALSE, brandName |-> "", isLoading |-> FALSE, error |-> "",
                success |-> FALSE, pc |-> "idle", timers |-> 0]

analysisResult == result["analyze"]
impactResult == result["impact"]
isAnalyzing == loading["analyze"]
isFindingImpact == loading["impact"]

\* a streamSSE call: pc is the await it is suspended at ("idle": no call, or a
\* call that has returned, whose outcome and last locals are kept for inspection);
\* sent is the whole response body and body the part not yet read; calls lists
\* the onDelta calls made; cutInPrefix records that some chunk ended inside the
\* "data: " prefix of a line; url and request are what fetch was given, fetches
\* counts the fetch calls of the handler run, saved tells how the setItem of the
\* final text went ("ok", "failed": it threw, "none": not reached)
IdleStream ==
    [pc |-> "idle", aborted |-> FALSE, request |-> <<>>, status |-> "",
     sent |-> <<>>, body |-> <<>>, decoder |-> <<>>, buffer |-> <<>>,
     lastUpdate |-> 0, accumulated |-> <<>>, calls |-> <<>>,
     thrown |-> NoError, outcome |-> "none", cutInPrefix |-> FALSE,
     url |-> "", fetches |-> 0, saved |-> "none"]

\* the call after "await fetch(...)" was issued
FetchingStream(url, request) ==
    [IdleStream EXCEPT !.pc = "fetch", !.url = url, !.request = request, !.fetches = 1]

\* the results the mount effect restores
RestoredResults(ls) == [p \in Phases |-> GetItemOrEmpty(ls, ResultKey(p))]

\* a first visit: nothing stored, the component constructed and mounted
Init ==
    /\ localStorage = [k \in StorageKeys |-> Absent]
    /\ oldPdf = loadPdfFromStorage(localStorage, LS_OLD_PDF)
    /\ newPdf = loadPdfFromStorage(localStorage, LS_NEW_PDF)
    /\ result = RestoredResults(localStorage)
    /\ loading = [p \in Phases |-> FALSE]
    /\ error = [p \in Phases |-> <<>>]
    /\ stream = [p \in Phases |-> IdleStream]
    /\ finalText = [p \in Phases |-> <<>>]
    /\ now = UPDATE_INTERVAL
    /\ engine = "V8"
    /\ lastEvent = "load"
    /\ OthersIdle

\* a later visit: both files are in storage and the mount effect restores them
InitLive ==
    /\ \E a \in PdfFiles("old"), b \in PdfFiles("new") :
          localStorage = [k \in StorageKeys |->
                            IF k = LS_OLD_PDF THEN [present |-> TRUE, value |-> Stringify(a)]
                            ELSE IF k = LS_NEW_PDF THEN [present |-> TRUE, value |-> Stringify(b)]
                            ELSE Absent]
    /\ oldPdf = loadPdfFromStorage(localStorage, LS_OLD_PDF)
    /\ newPdf = loadPdfFromStorage(localStorage, LS_NEW_PDF)
    /\ result = RestoredResults(localStorage)
    /\ loading = [p \in Phases |-> FALSE]
    /\ error = [p \in Phases |-> <<>>]
    /\ stream = [p \in Phases |-> IdleStream]
    /\ finalText = [p \in Phases |-> <<>>]
    /\ now = UPDATE_INTERVAL
    /\ engine = "V8"
    /\ lastEvent = "load"
    /\ OthersIdle

(***************************************************************************)
(* Derived state of the render.                                            *)
(***************************************************************************)
bothUploaded == oldPdf # Null /\ newPdf # Null
hasAnalysis == Len(analysisResult) > 0
isProcessing == isAnalyzing \/ isFindingImpact

ClearShown == oldPdf # Null \/ newPdf # Null \/ hasAnalysis \/ Len(impactResult) > 0
ClearEnabled == ClearShown /\ ~isProcessing
CompareEnabledWhileProcessing == bothUploaded
CompareEnabled == bothUploaded /\ ~isProcessing
FindImpactShown == hasAnalysis /\ ~isAnalyzing
FindImpactEnabled == FindImpactShown /\ ~isProcessing
ErrorShown(p) == error[p] # <<>>
ResultCardShown(p) == (Len(result[p]) > 0 \/ loading[p]) /\ error[p] = <<>>

\* a stream whose await was rejected by abort() and has not resumed yet; it
\* resumes as a microtask, before the next event is handled
AbortPending(p) == stream[p].pc # "idle" /\ stream[p].aborted
EventLoopIdle == \A p \in Phases : ~AbortPending(p)

\* the locals of a call that has returned are gone when the next handler runs
Returned(ss) == [p \in Phases |-> IF ss[p].pc = "idle" THEN IdleStream ELSE ss[p]]
ReturnedText(ss, ft) == [p \in Phases |-> IF ss[p].pc = "idle" THEN <<>> ELSE ft[p]]

(***************************************************************************)
(* Handlers of the view.                                                   *)
(***************************************************************************)
\* handleSetOldPdf / handleSetNewPdf with a file (onFile of the drop zone, shown
\* while the slot is empty); full: localStorage.setItem throws (quota)
handleSetPdf(slot, pdf, full) ==
    /\ EventLoopIdle
    /\ ~isProcessing
    /\ IF slot = "old" THEN oldPdf = Null ELSE newPdf = Null
    /\ IF slot = "old"
       THEN /\ oldPdf' = Some(pdf)
            /\ localStorage' = savePdfToStorage(localStorage, LS_OLD_PDF, Some(pdf), full)
            /\ UNCHANGED newPdf
       ELSE /\ newPdf' = Some(pdf)
            /\ localStorage' = savePdfToStorage(localStorage, LS_NEW_PDF, Some(pdf), full)
            /\ UNCHANGED oldPdf
    /\ stream' = Returned(stream)
    /\ finalText' = ReturnedText(stream, finalText)
    /\ lastEvent' = "setPdf"
    /\ UNCHANGED otherVars
    /\ UNCHANGED <<result, loading, error, now, engine>>

\* handleSetOldPdf(null) / handleSetNewPdf(null) (onRemove, shown while the slot
\* holds a file and the zone is not disabled)
handleRemovePdf(slot) ==
    /\ EventLoopIdle
    /\ ~isProcessing
    /\ IF slot = "old" THEN oldPdf # Null ELSE newPdf # Null
    /\ IF slot = "old"
       THEN /\ oldPdf' = Null
            /\ localStorage' = savePdfToStorage(localStorage, LS_OLD_PDF, Null, FALSE)
            /\ UNCHANGED newPdf
       ELSE /\ newPdf' = Null
            /\ localStorage' = savePdfToStorage(localStorage, LS_NEW_PDF, Null, FALSE)
            /\ UNCHANGED oldPdf
    /\ stream' = Returned(stream)
    /\ finalText' = ReturnedText(stream, finalText)
    /\ lastEvent' = "removePdf"
    /\ UNCHANGED otherVars
    /\ UNCHANGED <<result, loading, error, now, engine>>

\* controller.abort(): a pending await of the call is rejected
Abort(s) == IF s.pc = "idle" THEN s ELSE [s EXCEPT !.aborted = TRUE]

\* the body of handleClear
ClearAll ==
    /\ stream' = [p \in Phases |-> Abort(Returned(stream)[p])]
    /\ oldPdf' = Null
    /\ newPdf' = Null
    /\ result' = [p \in Phases |-> <<>>]
    /\ error' = [p \in Phases |-> <<>>]
    /\ loading' = [p \in Phases |-> FALSE]
    /\ localStorage' = [k \in StorageKeys |-> Absent]
    /\ finalText' = ReturnedText(stream, finalText)
    /\ lastEvent' = "clear"
    /\ UNCHANGED otherVars
    /\ UNCHANGED <<now, engine>>

\* the Clear All button, enabled while nothing is processing
handleClear ==
    /\ EventLoopIdle
    /\ ClearEnabled
    /\ ClearAll

\* handleClear run while a stream is in flight
handleClearInFlight ==
    /\ EventLoopIdle
    /\ \E p \in Phases : stream[p].pc # "idle"
    /\ ClearAll

\* the requests: the form data of /compare/analyze (the two files under their
\* names) and JSON.stringify({ changes_text: analysisResult }) of /compare/impact,
\* where the text is one member value
URL_ANALYZE == "/compare/analyze"
URL_IMPACT == "/compare/impact"
AnalyzeBody(old, new) ==
    <<"old_file", old.name, old.data, "new_file", new.name, new.data>>
ImpactBodyStored(text) ==
    <<"{", "\"changes_text\":", GetItemOrEmpty(localStorage, LS_ANALYSIS), "}">>
ImpactBody(text) == <<"{", "\"changes_text\":", text, "}">>

\* handleAnalyze up to its first await (the fetch of streamSSE)
handleAnalyze ==
    /\ EventLoopIdle
    /\ CompareEnabled
    /\ oldPdf # Null /\ newPdf # Null
    /\ loading' = [loading EXCEPT !["analyze"] = TRUE]
    /\ result' = [p \in Phases |-> <<>>]
    /\ error' = [p \in Phases |-> <<>>]
    /\ localStorage' = RemoveItem(RemoveItem(localStorage, LS_ANALYSIS), LS_IMPACT)
    /\ finalText' = [ReturnedText(stream, finalText) EXCEPT !["analyze"] = <<>>]
    /\ stream' = [Returned(stream) EXCEPT !["analyze"] =
                     FetchingStream(URL_ANALYZE, AnalyzeBody(oldPdf[1], newPdf[1]))]
    /\ lastEvent' = "analyze"
    /\ UNCHANGED otherVars
    /\ UNCHANGED <<oldPdf, newPdf, now, engine>>

\* handleFindImpact up to its first await
handleFindImpact ==
    /\ EventLoopIdle
    /\ FindImpactEnabled
    /\ analysisResult # <<>>
    /\ loading' = [loading EXCEPT !["impact"] = TRUE]
    /\ result' = [result EXCEPT !["impact"] = <<>>]
    /\ error' = [error EXCEPT !["impact"] = <<>>]
    /\ localStorage' = RemoveItem(localStorage, LS_IMPACT)
    /\ finalText' = [ReturnedText(stream, finalText) EXCEPT !["impact"] = <<>>]
    /\ stream' = [Returned(stream) EXCEPT !["impact"] =
                     FetchingStream(URL_IMPACT, ImpactBody(analysisResult))]
    /\ lastEvent' = "findImpact"
    /\ UNCHANGED otherVars
    /\ UNCHANGED <<oldPdf, newPdf, now, engine>>

\* the page is loaded again: requests in flight die with the page, the component
\* is constructed anew and its mount effect restores from localStorage
Reload ==
    /\ EventLoopIdle
    /\ oldPdf' = loadPdfFromStorage(localStorage, LS_OLD_PDF)
    /\ newPdf' = loadPdfFromStorage(localStorage, LS_NEW_PDF)
    /\ result' = RestoredResults(localStorage)
    /\ loading' = [p \in Phases |-> FALSE]
    /\ error' = [p \in Phases |-> <<>>]
    /\ lastEvent' = "load"
    /\ UNCHANGED otherVars
    /\ UNCHANGED <<localStorage, now, engine>>
    /\ stream' = [p \in Phases |-> IdleStream]
    /\ finalText' = [p \in Phases |-> <<>>]

(***************************************************************************)
(* streamSSE and the rest of the handler that awaits it.                   *)
(***************************************************************************)
\* the text of the last onDelta call made since the call list had length n
\* (cur when none was made): what setAnalysisResult / finalText end up holding
Delivered(calls, n, cur) ==
    IF Len(calls) > n THEN calls[Len(calls)].text ELSE cur

\* the catch clause of the handler: the message it shows, if any
CatchSilent(err, cur) == cur
CatchAll(err, cur) == IF err = NoError THEN cur ELSE err.message
CatchMessage(err, cur) ==
    IF err = NoError \/ err.name = "AbortError" THEN cur ELSE err.message

\* the handler after "await streamSSE(...)" settled with err (NoError: resolved) in
\* loop state s: persist on success, catch, finally
\* finally { setIsAnalyzing(false) } / finally { setIsFindingImpact(false) }
FinallySkipped(ld, p) == ld
Finally(ld, p) == [ld EXCEPT ![p] = FALSE]

\* localStorage.setItem(key, finalText) is reached, after the await in the try
\* block, and does not throw
SavesAlways(err, full) == ~full
Saves(err, full) == err = NoError /\ ~full

HandlerEnd(p, s, err, full) ==
    LET n == Len(stream[p].calls)
        text == Delivered(s.calls, n, finalText[p])
    IN /\ stream' = [stream EXCEPT ![p] =
                        [s EXCEPT !.pc = "idle", !.aborted = FALSE, !.thrown = err,
                                  !.outcome = IF err = NoError THEN "resolved"
                                              ELSE "rejected",
                                  !.body = <<>>, !.decoder = <<>>, !.buffer = <<>>,
                                  !.lastUpdate = 0,
                                  !.saved = IF err # NoError THEN "none"
                                            ELSE IF full THEN "failed" ELSE "ok"]]
       /\ result' = [result EXCEPT ![p] = Delivered(s.calls, n, @)]
       /\ finalText' = [finalText EXCEPT ![p] = text]
       /\ error' = [error EXCEPT ![p] = CatchMessage(err, @)]
       /\ loading' = Finally(loading, p)
       /\ localStorage' = IF Saves(err, full)
                          THEN SetItem(localStorage, ResultKey(p), text)
                          ELSE localStorage
       /\ UNCHANGED <<oldPdf, newPdf, now, engine, lastEvent, otherVars>>

\* streamSSE settles and the handler runs to its end; no path of either issues
\* the request again
SettleRetry(p, s, err, full) ==
    IF err \notin {NoError, AbortError} /\ s.fetches < 2
    THEN /\ stream' = [stream EXCEPT ![p] =
                          [FetchingStream(s.url, s.request) EXCEPT !.fetches = s.fetches + 1]]
         /\ UNCHANGED <<oldPdf, newPdf, result, loading, error, localStorage,
                        finalText, now, engine, lastEvent, otherVars>>
    ELSE HandlerEnd(p, s, err, full)
Settle(p, s, err, full) == HandlerEnd(p, s, err, full)

\* await fetch(...) resolves with a response
FetchResolves(p, ok, hasBody, body) ==
    /\ EventLoopIdle
    /\ stream[p].pc = "fetch"
    /\ IF ~ok
       THEN /\ stream' = [stream EXCEPT ![p].pc = "text", ![p].status = "500"]
            /\ UNCHANGED <<oldPdf, newPdf, result, loading, error, localStorage,
                           finalText, now, engine, lastEvent, otherVars>>
       ELSE IF ~hasBody
       THEN Settle(p, [stream[p] EXCEPT !.status = "200"], NoBodyError, FALSE)
       ELSE /\ stream' = [stream EXCEPT ![p].pc = "read", ![p].status = "200",
                                        ![p].sent = body, ![p].body = body]
            /\ UNCHANGED <<oldPdf, newPdf, result, loading, error, localStorage,
                           finalText, now, engine, lastEvent, otherVars>>

\* await fetch(...) rejects: the network failed
FetchRejects(p) ==
    /\ EventLoopIdle
    /\ stream[p].pc = "fetch"
    /\ Settle(p, stream[p], NetworkError, FALSE)

\* await response.text() of a non-2xx response resolves
TextResolves(p, errorText) ==
    /\ EventLoopIdle
    /\ stream[p].pc = "text"
    /\ Settle(p, stream[p],
              MkError("Error", <<"API returned ", stream[p].status, ": ">> \o errorText),
              FALSE)

\* the fragment kept in buffer is a proper, non-empty part of "data: "
CutsPrefix(fragment) ==
    /\ fragment # <<>>
    /\ Len(fragment) < Len(DATA_PREFIX)
    /\ IsPrefix(fragment, DATA_PREFIX)

\* await response.text() rejects: the connection broke
TextRejects(p) ==
    /\ EventLoopIdle
    /\ stream[p].pc = "text"
    /\ Settle(p, stream[p], NetworkError, FALSE)

\* await reader.read() resolves with { done: false, value } where value is the
\* next k bytes of the body; the rest of the loop body follows: decode, split,
\* pop, the for loop over the lines, and on a throw the finally block
ReadChunk(p, k) ==
    /\ EventLoopIdle
    /\ stream[p].pc = "read"
    /\ k \in 1..Len(stream[p].body)
    /\ \E dec \in {Decode(stream[p].decoder, SubSeq(stream[p].body, 1, k))} :
       \E lines \in {Split(stream[p].buffer \o dec.text)} :
       \E buffer \in {PopBuffer(lines)} :
       \E s \in {ProcessLines(engine, now,
                     [stream[p] EXCEPT
                         !.body = SubSeq(@, k + 1, Len(@)),
                         !.decoder = dec.pending,
                         !.buffer = buffer,
                         !.cutInPrefix = @ \/ CutsPrefix(buffer)],
                     CompleteLines(lines))} :
          IF s.thrown # NoError
          THEN Settle(p, Flush(s, now), s.thrown, FALSE)
          ELSE /\ stream' = [stream EXCEPT ![p] = s]
               /\ result' = [result EXCEPT ![p] =
                                Delivered(s.calls, Len(stream[p].calls), @)]
               /\ finalText' = [finalText EXCEPT ![p] =
                                   Delivered(s.calls, Len(stream[p].calls), @)]
               /\ UNCHANGED <<oldPdf, newPdf, loading, error, localStorage, now, engine,
                              lastEvent, otherVars>>

\* await reader.read() resolves with { done: true }: the body is exhausted
ReadDone(p, full) ==
    /\ EventLoopIdle
    /\ stream[p].pc = "read"
    /\ stream[p].body = <<>>
    /\ Settle(p, Flush(stream[p], now), NoError, full)

\* await reader.read() rejects: the connection broke
ReadRejects(p) ==
    /\ EventLoopIdle
    /\ stream[p].pc = "read"
    /\ Settle(p, Flush(stream[p], now), NetworkError, FALSE)

\* the await of an aborted call rejects with AbortError
AbortRejects(p) ==
    /\ AbortPending(p)
    /\ Settle(p, IF stream[p].pc = "read" THEN Flush(stream[p], now) ELSE stream[p],
              AbortError, FALSE)

\* Date.now() advances (it is read in the read loop only, so the clock is let
\* move only while a call is reading)
Tick ==
    /\ \E p \in Phases : stream[p].pc = "read"
    /\ now + ClockStep <= MaxClock
    /\ now' = now + ClockStep
    /\ UNCHANGED <<oldPdf, newPdf, result, loading, error, localStorage, stream,
                   finalText, engine, lastEvent, otherVars>>

(***************************************************************************)
(* Response bodies the server may send.                                    *)
(***************************************************************************)
JDelta(text) == <<"{", TYPE_DELTA, KEY_DELTA, QUOTE>> \o text \o <<QUOTE, "}">>
JError(text) == <<"{", TYPE_ERROR, KEY_ERROR, QUOTE>> \o text \o <<QUOTE, "}">>

\* the bytes of a "data: " line, without its line feed
DataLine(data) == Encode(DATA_PREFIX \o data)

HI == <<"H", "i">>
THERE == <<SP, EACUTE>>

\* the lines of the streaming specification
StreamLines ==
    { DataLine(JDelta(HI)),
      DataLine(JDelta(THERE)) \o <<CR>>,
      DataLine(JError(<<"boom">>)),
      DataLine(JError(<<"Unexpected", " EOF">>)),
      DataLine(<<"{", TYPE_ERROR, "}">>),
      DataLine(<<"{", TYPE_OTHER, "}">>),
      DataLine(<<"oops">>),
      DataLine(<<"{", TYPE_DELTA>>),
      DataLine(DONE),
      <<":", "k">> }

RECURSIVE Terminated(_)
Terminated(ls) ==
    IF ls = <<>> THEN <<>> ELSE Head(ls) \o <<LF>> \o Terminated(Tail(ls))

StreamBodies ==
    { Terminated(ls) \o tail :
        ls \in UNION { [1..n -> StreamLines] : n \in 0..MaxLines },
        tail \in { <<>>, DataLine(JDelta(HI)) } }

\* the bodies of the tool specification
ToolBodies ==
    { <<>>,
      Terminated(<<DataLine(JDelta(HI)), DataLine(JDelta(THERE)), DataLine(JDelta(HI))>>),
      Terminated(<<DataLine(JDelta(HI)), DataLine(JError(<<"boom">>))>>) }


\* the sizes of the chunk reader.read() may hand over when body is still to
\* come: any number of bytes, or (cut = "line") a fragment of FragmentSize bytes,
\* the rest of the first line, or all that is left
FragmentSize == 3
LineSizes(body) ==
    { k \in 1..Len(body) :
         \/ k = FragmentSize
         \/ k = Len(body)
         \/ body[k] = LF /\ \A j \in 1..(k - 1) : body[j] # LF }
ChunkSizes(cut, body) == IF cut = "any" THEN 1..Len(body) ELSE LineSizes(body)

(***************************************************************************)
(* Specifications.                                                         *)
(***************************************************************************)
\* the steps of a streamSSE call of phase p on bodies from the set bodies
StreamNext(p, bodies, cut) ==
    \/ \E body \in bodies : FetchResolves(p, TRUE, TRUE, body)
    \/ FetchResolves(p, FALSE, TRUE, <<>>)
    \/ \E errorText \in { <<>>, <<"Internal Server Error">> } : TextResolves(p, errorText)
    \/ \E k \in ChunkSizes(cut, stream[p].body) : ReadChunk(p, k)
    \/ \E full \in BOOLEAN : ReadDone(p, full)

\* the failures of the transport under a streamSSE call of phase p
StreamFails(p) ==
    \/ FetchResolves(p, TRUE, FALSE, <<>>)
    \/ FetchRejects(p)
    \/ TextRejects(p)
    \/ ReadRejects(p)

\* the view as rendered: every button obeys its disabled attribute
Next ==
    \/ \E slot \in {"old", "new"}, full \in BOOLEAN :
          \E pdf \in PdfFiles(slot) : handleSetPdf(slot, pdf, full)
    \/ \E slot \in {"old", "new"} : handleRemovePdf(slot)
    \/ handleClear
    \/ handleAnalyze
    \/ handleFindImpact
    \/ Reload
    \/ \E p \in Phases : StreamNext(p, ToolBodies, "line")
    \/ \E p \in Phases : StreamFails(p)
    \/ Tick

Spec == Init /\ [][Next]_vars

\* the view, and handleClear run while a stream is in flight
NextAbort ==
    \/ Next
    \/ handleClearInFlight
    \/ \E p \in Phases : AbortRejects(p)

SpecAbort == Init /\ [][NextAbort]_vars

\* the runs of the two handlers when no file is added or removed, at one
\* reading of the clock, where every await of a call in flight is eventually resumed:
\* the fetch, response.text() and each reader.read() resolve or reject
NextLive ==
    \/ handleClearInFlight
    \/ handleAnalyze
    \/ handleFindImpact
    \/ Reload
    \/ \E p \in Phases : StreamNext(p, ToolBodies, "line")
    \/ \E p \in Phases : StreamFails(p)
    \/ \E p \in Phases : AbortRejects(p)

SpecLive ==
    /\ InitLive
    /\ [][NextLive]_vars
    /\ \A p \in Phases :
          WF_vars(StreamNext(p, ToolBodies, "line") \/ StreamFails(p) \/ AbortRejects(p))

\* one streamSSE call, issued by handleAnalyze, on any body, cut into any chunks
InitStream ==
    /\ \E a \in PdfFiles("old"), b \in PdfFiles("new") :
          /\ oldPdf = Some(a)
          /\ newPdf = Some(b)
          /\ localStorage = [k \in StorageKeys |->
                               IF k = LS_OLD_PDF THEN [present |-> TRUE, value |-> Stringify(a)]
                               ELSE IF k = LS_NEW_PDF THEN [present |-> TRUE, value |-> Stringify(b)]
                               ELSE Absent]
          /\ stream = [p \in Phases |->
                         IF p = "analyze" THEN FetchingStream(URL_ANALYZE, AnalyzeBody(a, b))
                         ELSE IdleStream]
    /\ result = [p \in Phases |-> <<>>]
    /\ error = [p \in Phases |-> <<>>]
    /\ loading = [p \in Phases |-> p = "analyze"]
    /\ finalText = [p \in Phases |-> <<>>]
    /\ now = UPDATE_INTERVAL
    /\ engine \in Engines
    /\ lastEvent = "analyze"
    /\ OthersIdle

NextStream == StreamNext("analyze", StreamBodies, "any")

SpecStream == InitStream /\ [][NextStream]_vars

(***************************************************************************)
(* Properties of streamSSE.                                                *)
(***************************************************************************)
\* the call of phase p has returned (its outcome is still there to look at)
Settled(p) == stream[p].pc = "idle" /\ stream[p].outcome # "none"

\* the call of phase p got a 2xx response and read its body until the body
\* ended or an event made it throw
ReadBody(p) ==
    /\ Settled(p)
    /\ stream[p].status = "200"
    /\ stream[p].thrown \notin {AbortError, NetworkError, NoBodyError}

LastText(calls) == IF calls = <<>> THEN <<>> ELSE calls[Len(calls)].text

\* streamSSE run on a body that arrives as one chunk
OneChunk(eng, body) ==
    LET lines == Split(Decode(<<>>, body).text) IN
    Flush(ProcessLines(eng, UPDATE_INTERVAL, [IdleStream EXCEPT !.pc = "read"],
                       CompleteLines(lines)),
          UPDATE_INTERVAL)

\* the terminated lines of a body, as text
LinesOf(body) == CompleteLines(Split(Decode(<<>>, body).text))

\* the payload of a line, <<>> for a line that is no data line
DataOf(line) == IF StartsWith(line, DATA_PREFIX) THEN Trim(Slice(line, 6)) ELSE <<>>

\* line is a data line carrying an event of type error
IsErrorEvent(eng, line) ==
    /\ DataOf(line) # <<>>
    /\ \E event \in {JSONParse(eng, DataOf(line))} :
          event.ok /\ event.kind = "object" /\ event.type = "error"

\* the delta fields of the text delta events among lines, in order
DeltaText(eng, lines) ==
    Concat([i \in 1..Len(lines) |->
              IF DataOf(lines[i]) = <<>> THEN <<>> ELSE DeltaOf(eng, DataOf(lines[i]))])

\* C1: however the body is cut into chunks (inside a line, inside "data: ",
\* inside a character), the accumulated text, the last text handed to onDelta
\* and the way the call ends are those of the body read as one chunk
C1_ChunkingIrrelevant ==
    \A p \in Phases :
       ReadBody(p) =>
          \E whole \in {OneChunk(engine, stream[p].sent)} :
             /\ stream[p].accumulated = whole.accumulated
             /\ stream[p].thrown = whole.thrown
             /\ LastText(stream[p].calls) = LastText(whole.calls)

C1_Witness ==
    /\ ReadBody("analyze")
    /\ stream["analyze"].cutInPrefix
    /\ stream["analyze"].outcome = "resolved"
    /\ stream["analyze"].accumulated = HI \o THERE

\* C2: when the call resolves, the last text handed to onDelta is the delta
\* fields of the text delta events of the stream, concatenated in order; lines
\* without "data: " and events of other types add nothing (an event is a line
\* ended by a line feed)
C2_TextIsConcatenation ==
    \A p \in Phases :
       (ReadBody(p) /\ stream[p].outcome = "resolved") =>
          \E text \in {DeltaText(engine, LinesOf(stream[p].sent))} :
             /\ stream[p].accumulated = text
             /\ text # <<>> => LastText(stream[p].calls) = text
             /\ text = <<>> => stream[p].calls = <<>>

C2_Witness ==
    /\ ReadBody("analyze")
    /\ stream["analyze"].outcome = "resolved"
    /\ Len(stream["analyze"].calls) >= 2
    /\ LastText(stream["analyze"].calls) = HI \o THERE

\* C6 (as the spec states it): when the body holds an event of type error the
\* call rejects, and the text accumulated is what came before that event
C6_ErrorEventRejects ==
    \A p \in Phases :
       ReadBody(p) =>
          \A i \in 1..Len(LinesOf(stream[p].sent)) :
             IsErrorEvent(engine, LinesOf(stream[p].sent)[i]) =>
                /\ stream[p].outcome = "rejected"
                /\ IsPrefix(stream[p].accumulated,
                            DeltaText(engine, SubSeq(LinesOf(stream[p].sent), 1, i - 1)))
                /\ LastText(stream[p].calls) = stream[p].accumulated

\* C7 (as the spec states it): a data line whose payload is not valid JSON is
\* skipped, so a body without an error event makes the call resolve with all
\* of its text deltas
C7_InvalidJsonSkipped ==
    \A p \in Phases :
       (ReadBody(p) /\ \A i \in 1..Len(LinesOf(stream[p].sent)) :
                          ~IsErrorEvent(engine, LinesOf(stream[p].sent)[i])) =>
          /\ stream[p].outcome = "resolved"
          /\ stream[p].accumulated = DeltaText(engine, LinesOf(stream[p].sent))

(***************************************************************************)
(* Properties of the throttle and of the final flush.                      *)
(***************************************************************************)
\* C3: when the call ends with text accumulated (the body ended, an event made
\* it throw, the connection broke or the request was aborted), its last call
\* of onDelta is made on the way out and hands over all of the accumulated
\* text, whatever the throttle would have allowed
C3_FinalFlush ==
    \A p \in Phases :
       (Settled(p) /\ stream[p].accumulated # <<>>) =>
          /\ stream[p].calls # <<>>
          /\ stream[p].calls[Len(stream[p].calls)].flush
          /\ LastText(stream[p].calls) = stream[p].accumulated
          /\ finalText[p] = stream[p].accumulated

C3_Witness ==
    \E p \in Phases :
       /\ Settled(p)
       /\ stream[p].thrown = AbortError
       /\ Len(stream[p].calls) = 2
       /\ stream[p].calls[1].text # stream[p].accumulated
       /\ stream[p].calls[2].at - stream[p].calls[1].at < UPDATE_INTERVAL

\* C4: two calls of onDelta made by the read loop are at least UPDATE_INTERVAL
\* ms apart; a delta that comes sooner is accumulated without a call
C4_Throttle ==
    \A p \in Phases :
       \A i, j \in DOMAIN stream[p].calls :
          (i < j /\ ~stream[p].calls[j].flush) =>
             stream[p].calls[j].at - stream[p].calls[i].at >= UPDATE_INTERVAL

C4_Witness ==
    \E p \in Phases :
       /\ Len(stream[p].calls) >= 2
       /\ ~stream[p].calls[2].flush
       /\ stream[p].calls[1].text = HI
       /\ stream[p].calls[2].text = HI \o THERE \o HI

\* C5: every call of onDelta hands over the text accumulated from the start,
\* never one delta, so that the text shown while the stream runs is the last
\* text handed over and only ever grows
C5_Cumulative ==
    \A p \in Phases :
       /\ \A i \in DOMAIN stream[p].calls :
             /\ IsPrefix(stream[p].calls[i].text, stream[p].accumulated)
             /\ \A j \in DOMAIN stream[p].calls :
                   i < j => IsPrefix(stream[p].calls[i].text, stream[p].calls[j].text)
       /\ (stream[p].pc = "read" /\ ~stream[p].aborted) =>
             result[p] = LastText(stream[p].calls)

C5_Witness ==
    \E p \in Phases :
       /\ stream[p].pc = "read"
       /\ Len(stream[p].calls) = 2
       /\ stream[p].calls[1].text = HI
       /\ result[p] = HI \o THERE

(***************************************************************************)
(* Properties of the view.                                                 *)
(***************************************************************************)
\* C8: after a response that is not 2xx, onDelta was never called, the result
\* of the phase is empty, its error message is not, and its loading flag is off
C8_Non2xx ==
    \A p \in Phases :
       (Settled(p) /\ stream[p].status = "500") =>
          /\ stream[p].calls = <<>>
          /\ result[p] = <<>>
          /\ error[p] # <<>>
          /\ ~loading[p]

C8_Witness ==
    \E p \in Phases :
       /\ Settled(p)
       /\ error[p] = <<"API returned ", "500", ": ", "Internal Server Error">>
       /\ ~ResultCardShown(p)

\* C9 (as the spec states it): when the stream handed over text and then ended
\* in an event of type error, the view shows that text and the error
C9_TextAndErrorShown ==
    \A p \in Phases :
       (ReadBody(p) /\ stream[p].thrown.name = "Error" /\ stream[p].accumulated # <<>>) =>
          /\ result[p] = stream[p].accumulated
          /\ ErrorShown(p)
          /\ ResultCardShown(p)

\* the four keys absent, both slots empty, no result, no error, nothing loading
AllCleared ==
    /\ \A k \in StorageKeys : ~localStorage[k].present
    /\ oldPdf = Null
    /\ newPdf = Null
    /\ \A p \in Phases : result[p] = <<>> /\ error[p] = <<>> /\ ~loading[p]

LoopText(calls) ==
    IF \E i \in DOMAIN calls : ~calls[i].flush
    THEN calls[CHOOSE i \in DOMAIN calls :
                  ~calls[i].flush /\ \A j \in DOMAIN calls : ~calls[j].flush => j <= i].text
    ELSE <<>>

KeyOf(p) == IF p = "analyze" THEN "compare_analysis" ELSE "compare_impact"

C14_NoRetry ==
    \A p \in Phases :
       /\ stream[p].fetches <= 1
       /\ stream[p].pc # "idle" => stream[p].fetches = 1

C14_Witness ==
    \E p \in Phases :
       /\ Settled(p)
       /\ stream[p].thrown = NetworkError
       /\ stream[p].status = "200"
       /\ stream[p].accumulated # <<>>
       /\ stream[p].fetches = 1

(***************************************************************************)
(* The in-memory chat store of the backend (ChatStorage).  Its code is not *)
(* among the sources; it is modelled from section 4.3 of the               *)
(* specification and from the README ("Max 10 chats", "oldest              *)
(* auto-deleted").  A chat is {id, title, agent_id, messages, created_at,  *)
(* updated_at}; the clock of the store advances with every call.           *)
(***************************************************************************)
MAX_CHATS == 10

ChatIds(chs) == { c.id : c \in chs }

\* the store is full
AtCapacityStrict(n) == n > MAX_CHATS
AtCapacity(n) == n >= MAX_CHATS

\* the chat with the oldest updated_at
OldestCreated(chs) == CHOOSE c \in chs : \A d \in chs : c.created_at <= d.created_at
Oldest(chs) == CHOOSE c \in chs : \A d \in chs : c.updated_at <= d.updated_at

\* create(title, agent_id): at the maximum the chat with the oldest updated_at is
\* deleted first
create(title, agent_id) ==
    /\ store.tick < MaxOps
    /\ LET t == store.tick + 1
           full == AtCapacity(Cardinality(store.chats))
           gone == IF full THEN {Oldest(store.chats)} ELSE {}
       IN store' = [store EXCEPT
                       !.chats = (@ \ gone) \cup {[id |-> store.nextId, title |-> title, agent_id |-> agent_id,
                                            messages |-> <<>>, created_at |-> t,
                                            updated_at |-> t]},
                       !.tick = t,
                       !.nextId = @ + 1,
                       !.request = [op |-> "create", chat_id |-> store.nextId],
                       !.reply = "ok",
                       !.evicted = @ \cup { [id |-> c.id, updated_at |-> c.updated_at] :
                                              c \in gone }]
    /\ UNCHANGED <<toolVars, chatView, bubble, deploy, brand>>

\* chat_id is the id of a chat of the store
KnowsAny(chs, chat_id) == TRUE
Knows(chs, chat_id) == chat_id \in ChatIds(chs)

\* the chats after message was appended to the chat chat_id at time t
AppendedToAll(chs, chat_id, message, t) ==
    { [c EXCEPT !.messages = Append(@, message),
                !.updated_at = IF c.id = chat_id THEN t ELSE @] : c \in chs }
Appended(chs, chat_id, message, t) ==
    { IF c.id = chat_id
      THEN [c EXCEPT !.messages = Append(@, message), !.updated_at = t]
      ELSE c : c \in chs }

\* add_message(chat_id, message): NotFound for an unknown chat_id
add_message(chat_id, message) ==
    /\ store.tick < MaxOps
    /\ store.adds < MaxAdds
    /\ LET t == store.tick + 1
           found == Knows(store.chats, chat_id)
       IN store' = [store EXCEPT
                       !.chats = IF found THEN Appended(@, chat_id, message, t) ELSE @,
                       !.tick = t,
                       !.adds = @ + 1,
                       !.request = [op |-> "add_message", chat_id |-> chat_id],
                       !.reply = IF found THEN "ok" ELSE "NotFound"]
    /\ UNCHANGED <<toolVars, chatView, bubble, deploy, brand>>

\* add_message is called for the first two chats created and for an id no chat
\* ever had
NextChat ==
    \/ \E title \in {"New Chat"}, agent_id \in {"agent-1"} : create(title, agent_id)
    \/ \E chat_id \in {1, 2, store.nextId} :
          add_message(chat_id, [id |-> store.adds + 1, role |-> "user", content |-> "hello"])

SpecChat == Init /\ [][NextChat]_vars

(***************************************************************************)
(* Properties of the chat store.                                           *)
(***************************************************************************)
\* C15: at most MAX_CHATS chats exist; once more than MAX_CHATS were created
\* exactly MAX_CHATS remain, and every chat that remains was updated after the
\* last update of every chat that was deleted
C15_AtMostTenChats ==
    /\ Cardinality(store.chats) <= MAX_CHATS
    /\ store.nextId > MAX_CHATS => Cardinality(store.chats) = MAX_CHATS
    /\ \A e \in store.evicted : \A c \in store.chats : e.updated_at < c.updated_at

C15_Witness ==
    /\ store.nextId = MAX_CHATS + 2
    /\ store.adds = 0
    /\ ChatIds(store.chats) = 2..(MAX_CHATS + 1)

\* C16: a create called while MAX_CHATS chats exist deletes exactly one chat,
\* the one with the oldest updated_at
C16_EvictsOldestUpdated ==
    [][(store'.nextId = store.nextId + 1 /\ Cardinality(store.chats) = MAX_CHATS) =>
          \E c \in store.chats :
             /\ \A d \in store.chats : c.updated_at <= d.updated_at
             /\ ChatIds(store'.chats) = (ChatIds(store.chats) \ {c.id}) \cup {store.nextId}
             /\ \A d \in store.chats \ {c} : d \in store'.chats]_vars

C16_Witness ==
    /\ { e.id : e \in store.evicted } = {2}
    /\ \E c \in store.chats : c.id = 1 /\ c.created_at = 1 /\ c.messages # <<>>

\* C17: add_message for an id that no chat of the store has answers NotFound
\* and leaves the chats as they were; for a known id it does not
C17_UnknownIdNotFound ==
    [][store'.adds = store.adds + 1 =>
          IF store'.request.chat_id \in ChatIds(store.chats)
          THEN store'.reply = "ok"
          ELSE store'.reply = "NotFound" /\ store'.chats = store.chats]_vars

C17_Witness ==
    /\ store.reply = "NotFound"
    /\ store.request.chat_id \in { e.id : e \in store.evicted }

\* C18: the message list of a chat that stays only grows at its end, only the
\* chat add_message names gets the message, and no message is in two chats
C18_AppendOnly ==
    /\ [](\A c, d \in store.chats : c.id # d.id =>
             \A i \in DOMAIN c.messages : \A j \in DOMAIN d.messages :
                c.messages[i] # d.messages[j])
    /\ [][\A c \in store.chats : \A d \in store'.chats :
             c.id = d.id =>
                /\ IsPrefix(c.messages, d.messages)
                /\ d.messages # c.messages =>
                      /\ store'.request = [op |-> "add_message", chat_id |-> c.id]
                      /\ Len(d.messages) = Len(c.messages) + 1]_vars

C18_Witness ==
    \E c, d \in store.chats :
       /\ Len(c.messages) = 2
       /\ d.id # c.id
       /\ d.messages = <<>>

(***************************************************************************)
(* The Message component (chat/Message.tsx).  What it renders is the set   *)
(* of the elements of its output, each named by its icon or its role.      *)
(***************************************************************************)
\* the condition of the action buttons
ActionsShownOnError(isUser, isError, message) == ~isUser /\ ~message.isStreaming
ActionsShown(isUser, isError, message) == ~isUser /\ ~isError /\ ~message.isStreaming

Render(message, visualizationsVisible) ==
    LET isUser == message.role = "user"
        isError == message.isError = "true"
        tools == IF message.traceSummary = NoSummary THEN 0
                 ELSE message.traceSummary[1].tools_called
        hasTraceId == message.traceId \notin {"undefined", ""}
    IN (IF isUser THEN {"UserBackground", "UserText"}
        ELSE IF isError THEN {"ErrorBackground", "AlertCircle", "ErrorText"}
        ELSE {"AssistantBackground", "Markdown"})
       \cup (IF message.visualizations > 0
             THEN {"VisualizationsToggle"}
                  \cup (IF visualizationsVisible THEN {"Charts"} ELSE {})
             ELSE {})
       \cup {"Timestamp"}
       \cup (IF ~isUser /\ ~isError /\ message.traceSummary # NoSummary
             THEN {"TraceSummary"}
                  \cup (IF message.traceSummary[1].duration_ms > 0 THEN {"Clock"} ELSE {})
                  \cup (IF message.traceSummary[1].total_tokens > 0 THEN {"Zap"} ELSE {})
                  \cup (IF tools > 0 THEN {"Wrench"} ELSE {})
                  \cup (IF message.traceSummary[1].retrieval_calls > 0
                        THEN {"Database"} ELSE {})
             ELSE {})
       \cup (IF ActionsShown(isUser, isError, message)
             THEN {"ActionButtons"}
                  \cup (IF hasTraceId THEN {"ThumbsUp", "ThumbsDown"} ELSE {})
                  \cup (IF hasTraceId \/ tools > 0 THEN {"Search"} ELSE {})
             ELSE {})

\* the component is rendered, for the first time or with new props
RenderMessage(message) ==
    /\ bubble' = [bubble EXCEPT !.mounted = TRUE, !.message = message,
                                !.rendered = Render(message, bubble.visualizationsVisible)]
    /\ UNCHANGED <<toolVars, store, chatView, deploy, brand>>

\* the click on the toggle of the visualizations
ToggleVisualizations ==
    /\ bubble.mounted
    /\ "VisualizationsToggle" \in bubble.rendered
    /\ bubble' = [bubble EXCEPT !.visualizationsVisible = ~@,
                                !.rendered = Render(bubble.message, ~bubble.visualizationsVisible)]
    /\ UNCHANGED <<toolVars, store, chatView, deploy, brand>>

NextMessage ==
    \/ \E message \in Messages : RenderMessage(message)
    \/ ToggleVisualizations

SpecMessage == Init /\ [][NextMessage]_vars

\* C20: a message that is not of the user and has isError true is rendered as an
\* error bubble (alert icon, error background, plain text), never as an
\* assistant bubble, and without the trace summary strip and the action buttons
C20_ErrorBubble ==
    (bubble.mounted /\ bubble.message.role # "user" /\ bubble.message.isError = "true") =>
        /\ {"ErrorBackground", "AlertCircle", "ErrorText"} \subseteq bubble.rendered
        /\ bubble.rendered \cap {"AssistantBackground", "Markdown", "UserBackground", "UserText"} = {}
        /\ bubble.rendered \cap {"TraceSummary", "Clock", "Zap", "Wrench", "Database"} = {}
        /\ bubble.rendered \cap {"ActionButtons", "ThumbsUp", "ThumbsDown", "Search"} = {}

C20_Witness ==
    /\ bubble.mounted
    /\ bubble.message.role = "assistant"
    /\ bubble.message.isError = "true"
    /\ ~bubble.message.isStreaming
    /\ bubble.message.traceSummary = Summary(1500, 120, 1, 1)
    /\ bubble.message.traceId = "tr-1"
    /\ "AlertCircle" \in bubble.rendered

(***************************************************************************)
(* The chat page.  Its code is not among the sources; it is modelled from  *)
(* section 5 of the specification ("Cancellation") and the planning notes: *)
(* while a response is streaming, switching chats and sending a message    *)
(* are blocked by a warning.                                               *)
(***************************************************************************)
WAIT_WARNING == "Please wait for the current response to complete before switching chats"

\* the chats of the sidebar; 0 is "new chat"

\* an attempt is blocked while a response is streaming
BlockedNever(view) == FALSE
Blocked(view) == view.isStreaming

\* the user picks a chat in the sidebar; the abort handle of a response is given
\* up with the chat it belongs to
selectChat(chat_id) ==
    /\ chat_id # chatView.activeChat
    /\ chatView' =
          IF Blocked(chatView)
          THEN [chatView EXCEPT !.warning = WAIT_WARNING, !.event = "selectChat"]
          ELSE [chatView EXCEPT !.activeChat = chat_id, !.warning = "",
                                !.cancelled = IF chatView.isStreaming THEN @ + 1 ELSE @,
                                !.isStreaming = FALSE, !.event = "selectChat"]
    /\ UNCHANGED <<toolVars, store, bubble, deploy, brand>>

\* the user sends a message in the chat shown
sendMessage ==
    /\ chatView.streams < MaxStreams
    /\ chatView' =
          IF Blocked(chatView)
          THEN [chatView EXCEPT !.warning = WAIT_WARNING, !.event = "sendMessage"]
          ELSE [chatView EXCEPT !.isStreaming = TRUE, !.streams = @ + 1, !.warning = "",
                                !.event = "sendMessage"]
    /\ UNCHANGED <<toolVars, store, bubble, deploy, brand>>

\* the response ends
streamCompletes ==
    /\ chatView.isStreaming
    /\ chatView' = [chatView EXCEPT !.isStreaming = FALSE, !.event = "complete"]
    /\ UNCHANGED <<toolVars, store, bubble, deploy, brand>>

\* the user closes the warning
dismissWarning ==
    /\ chatView.warning # ""
    /\ chatView' = [chatView EXCEPT !.warning = "", !.event = "dismiss"]
    /\ UNCHANGED <<toolVars, store, bubble, deploy, brand>>

NextChatView ==
    \/ \E chat_id \in 0..3 : selectChat(chat_id)
    \/ sendMessage
    \/ streamCompletes
    \/ dismissWarning

SpecChatView == Init /\ [][NextChatView]_vars

C22_PdfMatchesStorage ==
    /\ oldPdf = loadPdfFromStorage(localStorage, LS_OLD_PDF)
    /\ newPdf = loadPdfFromStorage(localStorage, LS_NEW_PDF)

\* C23 (as the spec states it): a "data: [DONE]" line raises no error, adds no
\* text and ends the stream: the text of a call that resolves is that of the
\* text deltas on the lines before the first such line
C23_DoneEndsStream ==
    \A p \in Phases :
       (ReadBody(p) /\ stream[p].outcome = "resolved") =>
          \E lines \in {LinesOf(stream[p].sent)} :
             \A i \in 1..Len(lines) :
                (DataOf(lines[i]) = DONE /\ \A j \in 1..(i - 1) : DataOf(lines[j]) # DONE) =>
                   stream[p].accumulated = DeltaText(engine, SubSeq(lines, 1, i - 1))

\* C24: with the buttons obeying their disabled attributes, the two loading
\* flags are never both true, at most one call is in flight, and a run of
\* handleAnalyze or handleFindImpact starts only while neither flag is true
C24_OneStreamInFlight ==
    /\ [](/\ ~(isAnalyzing /\ isFindingImpact)
          /\ \E p \in Phases : stream[p].pc = "idle")
    /\ [][\A p \in Phases :
             (stream[p].pc # "fetch" /\ stream'[p].pc = "fetch") => ~isProcessing]_vars

C24_Witness ==
    /\ isFindingImpact
    /\ bothUploaded
    /\ stream["impact"].pc = "read"
    /\ stream["impact"].accumulated # <<>>

\* C25: a loading flag that is true is eventually false again, however the
\* request ends
C25_LoadingEnds == \A p \in Phases : loading[p] ~> ~loading[p]

C25_Witness ==
    /\ Settled("analyze")
    /\ stream["analyze"].status = "200"
    /\ stream["analyze"].outcome = "rejected"
    /\ stream["analyze"].thrown \notin {AbortError, NetworkError, NoBodyError}
    /\ stream["analyze"].accumulated = HI
    /\ ~isAnalyzing

\* C26: while the outcome of a call that was rejected (by an error or an abort)
\* is there to look at, the key of its phase is absent, also when text was
\* accumulated and is shown; a reload then restores the empty text
C26_FailedPhaseNotStored ==
    /\ [](\A p \in Phases :
             (Settled(p) /\ stream[p].outcome = "rejected") =>
                ~localStorage[ResultKey(p)].present)
    /\ [][\A p \in Phases :
             (/\ Settled(p)
              /\ stream[p].outcome = "rejected"
              /\ lastEvent # "load"
              /\ lastEvent' = "load") => result'[p] = <<>>]_vars

C26_Witness ==
    /\ Settled("impact")
    /\ stream["impact"].thrown = AbortError
    /\ stream["impact"].accumulated = HI
    /\ LastText(stream["impact"].calls) = HI
    /\ ~localStorage[LS_IMPACT].present

\* C27 (as the spec states it): compare_impact is in storage only together with
\* compare_analysis
C27_ImpactImpliesAnalysis ==
    localStorage[LS_IMPACT].present => localStorage[LS_ANALYSIS].present

\* C28 (as the spec states it): every text delta event of the body is in the final
\* text, the one on a last line without a line feed included
C28_LastLineProcessed ==
    \A p \in Phases :
       (ReadBody(p) /\ stream[p].outcome = "resolved") =>
          stream[p].accumulated =
             DeltaText(engine, Split(Decode(<<>>, stream[p].sent).text))

(***************************************************************************)
(* scripts/deploy.sh, run under set -e.  A command is a simple command, a  *)
(* test of the script or a group of commands of one step; it succeeds or   *)
(* fails.                                                                  *)
(***************************************************************************)
\* the command that follows cmd when cmd succeeded
OnSuccess(cmd, env) ==
    CASE cmd = "check_deps" -> "check_root"
      [] cmd = "prompt" -> "install"
      [] cmd = "install" -> "check_root"
      [] cmd = "check_root" -> "source_env"
      [] cmd = "source_env" -> "check_path"
      [] cmd = "check_path" -> "check_name"
      [] cmd = "check_name" -> IF env.host THEN "auth_login" ELSE "auth_describe"
      [] cmd = "auth_login" -> "auth_describe"
      [] cmd = "auth_describe" -> "requirements"
      [] cmd = "requirements" -> "cd_client"
      [] cmd = "cd_client" -> "bun_install"
      [] cmd = "bun_install" -> "bun_build"
      [] cmd = "bun_build" -> "cd_back"
      [] cmd = "cd_back" -> "sync"
      [] cmd = "sync" -> "apps_get"
      [] cmd = "apps_get" -> "apps_deploy"
      [] cmd = "apps_create" -> "sleep"
      [] cmd = "sleep" -> "apps_deploy"
      [] cmd = "apps_deploy" -> "verify"
      [] OTHER -> "exit"

\* ... and when cmd failed: the tests of an if and the left side of || go on,
\* exit 1 and set -e end the script
OnFailureGoOn(cmd, env) ==
    IF cmd = "check_deps" THEN "prompt" ELSE OnSuccess(cmd, env)
OnFailure(cmd, env) ==
    CASE cmd = "check_deps" -> "prompt"
      [] cmd = "auth_login" -> "auth_describe"
      [] cmd = "apps_get" -> "apps_create"
      [] OTHER -> "exit"

\* the command at pc runs; source_env succeeds with any setting of the
\* variables, the two tests of the variables succeed when their variable is set
RunCommand(ok, env) ==
    /\ deploy.pc # "exit"
    /\ deploy.pc = "source_env" \/ env = deploy.env
    /\ deploy.pc = "check_path" => ok = deploy.env.path
    /\ deploy.pc = "check_name" => ok = deploy.env.name
    /\ \E pc \in {IF ok THEN OnSuccess(deploy.pc, env) ELSE OnFailure(deploy.pc, env)} :
          deploy' = [pc |-> pc,
                     log |-> Append(deploy.log, [cmd |-> deploy.pc, ok |-> ok]),
                     exit |-> IF pc # "exit" THEN -1
                              ELSE IF deploy.pc = "verify" THEN 0 ELSE 1,
                     env |-> IF ok THEN env ELSE deploy.env]
    /\ UNCHANGED <<toolVars, store, chatView, bubble, brand>>

NextDeploy ==
    \E ok \in BOOLEAN, env \in [path : BOOLEAN, name : BOOLEAN, host : BOOLEAN] :
       RunCommand(ok, env)

SpecDeploy == Init /\ [][NextDeploy]_vars

\* C21: when databricks apps deploy is run, the authentication was verified,
\* requirements.txt generated, the frontend built and the code synced before
\* it, in this order and each with success; a failure of one of these steps or
\* of the tests of WORKSPACE_SOURCE_PATH and DATABRICKS_APP_NAME is the last
\* command of the run, which exits with a status that is not 0
C21_DeployOrder ==
    /\ \A i \in DOMAIN deploy.log :
          deploy.log[i].cmd = "apps_deploy" =>
             \E a, b, c, d \in 1..(i - 1) :
                /\ a < b /\ b < c /\ c < d
                /\ deploy.log[a] = [cmd |-> "auth_describe", ok |-> TRUE]
                /\ deploy.log[b] = [cmd |-> "requirements", ok |-> TRUE]
                /\ deploy.log[c] = [cmd |-> "bun_build", ok |-> TRUE]
                /\ deploy.log[d] = [cmd |-> "sync", ok |-> TRUE]
    /\ \A i \in DOMAIN deploy.log :
          (/\ ~deploy.log[i].ok
           /\ deploy.log[i].cmd \in {"check_path", "check_name", "auth_describe",
                                     "requirements", "cd_client", "bun_install",
                                     "bun_build", "cd_back", "sync"}) =>
             /\ i = Len(deploy.log)
             /\ deploy.pc = "exit"
             /\ deploy.exit > 0

C21_Witness ==
    /\ deploy.pc = "exit"
    /\ deploy.exit = 0
    /\ deploy.env = [path |-> TRUE, name |-> TRUE, host |-> TRUE]
    /\ \E i \in DOMAIN deploy.log : deploy.log[i] = [cmd |-> "auth_login", ok |-> FALSE]
    /\ \E i \in DOMAIN deploy.log : deploy.log[i] = [cmd |-> "apps_create", ok |-> TRUE]
    /\ \E i \in DOMAIN deploy.log : deploy.log[i] = [cmd |-> "apps_deploy", ok |-> TRUE]

(***************************************************************************)
(* The BrandSettings dialog (BrandSettings.tsx).                           *)
(***************************************************************************)
\* the dialog is opened from the menu, closed by Cancel (disabled while
\* loading), by the Escape key or by a click outside
onOpenChange(open) ==
    /\ brand.open # open
    /\ brand' = [brand EXCEPT !.open = open]
    /\ UNCHANGED <<toolVars, store, chatView, bubble, deploy>>

\* onChange of the input, disabled while loading
setBrandName(name) ==
    /\ brand.open
    /\ ~brand.isLoading
    /\ brand.brandName # name
    /\ brand' = [brand EXCEPT !.brandName = name]
    /\ UNCHANGED <<toolVars, store, chatView, bubble, deploy>>

\* handleApplyBrand up to its first await (Apply Brand button or Enter key, both
\* disabled while loading)
handleApplyBrand ==
    /\ brand.open
    /\ ~brand.isLoading
    /\ brand' = IF brand.brandName \in {"", " "}
                THEN [brand EXCEPT !.error = "Please enter a brand name"]
                ELSE [brand EXCEPT !.isLoading = TRUE, !.error = "", !.success = FALSE,
                                   !.pc = "fetch"]
    /\ UNCHANGED <<toolVars, store, chatView, bubble, deploy>>

\* the rest of handleApplyBrand: the request succeeds (ok response, JSON read,
\* styles applied), or fetch rejects, or the response is not ok, or
\* response.json() rejects; message is err.message
ApplyEnds(ok, message) ==
    /\ brand.pc = "fetch"
    /\ ok => brand.timers < MaxTimers
    /\ brand' = IF ok
                THEN [brand EXCEPT !.success = TRUE, !.timers = @ + 1,
                                   !.isLoading = FALSE, !.pc = "idle"]
                ELSE [brand EXCEPT !.error = message,
                                   !.isLoading = FALSE, !.pc = "idle"]
    /\ UNCHANGED <<toolVars, store, chatView, bubble, deploy>>

\* the callback of setTimeout(..., 1500)
CloseTimer ==
    /\ brand.timers > 0
    /\ brand' = [brand EXCEPT !.open = FALSE, !.success = FALSE, !.brandName = "",
                              !.timers = @ - 1]
    /\ UNCHANGED <<toolVars, store, chatView, bubble, deploy>>

NextBrand ==
    \/ \E open \in BOOLEAN : onOpenChange(open)
    \/ \E name \in {"", " ", "Tesla"} : setBrandName(name)
    \/ handleApplyBrand
    \/ \E ok \in BOOLEAN :
          \E message \in {"Failed to fetch", "Failed to fetch brand: Not Found",
                          "Unexpected end of JSON input"} : ApplyEnds(ok, message)
    \/ CloseTimer

SpecBrand == Init /\ [][NextBrand]_vars

\* C29 (as the spec states it): the dialog never shows the error message and
\* the success message together
C29_NeverBoth == ~(brand.open /\ brand.error # "" /\ brand.success)

====
